---- MODULE Spec2Model ----
(***************************************************************************)
(* Model of the ReAct agent control loop of src/src/core/agent.py (class   *)
(* Agent) together with the parts of the response parser it calls.         *)
(*                                                                         *)
(* Strings are sequences of tokens.  A token is either a single character  *)
(* ("$", "a", "-", ...) or a fixed chunk of literal text that contains no  *)
(* "$" ("Tool not found: ", ...).  An optional value (Python None or a     *)
(* value) is a record [some, val].                                         *)
(***************************************************************************)
EXTENDS Integers, Sequences, FiniteSets, TLC

VARIABLES
    pc,                \* position of the single call stack of execute()
    tools,             \* Agent.tools: upper-cased name -> Tool
    max_iterations,    \* Agent.max_iterations
    query,             \* Agent.query
    state,             \* Agent.state (AgentState)
    current_iteration, \* Agent.current_iteration
    final_answer,      \* Agent.final_answer (optional string)
    done_steps,        \* Agent.done_steps
    to_do_steps,       \* Agent.to_do_steps
    step_results,      \* Agent.step_results (insertion-ordered dict)
    memory,            \* Agent.memory: the number of Responses appended
    response,          \* the Response handed from _get_llm_response to _decide
    prompt,            \* the prompt last handed to model.generate
    ret,               \* what execute() handed back to its caller
    calls,             \* model.generate calls made by the current execute()
    tool_runs,         \* tool.execute calls made by the current execute()
    tool_call,         \* the tool.execute call of the turn in progress
    last_turn,         \* what the last _decide of this execute() did
    i_pc,              \* interpolation on its own: "off", "ready", "applied"
    i_text,            \* the text handed to _replace_interpolated_variables
    i_variables,       \* the variables handed to it (a step_results dict)
    i_out,             \* what it returned
    fn,                \* a function on its own: which one was applied
    input,             \* the argument it was applied to
    output             \* what it returned or raised

vars == <<pc, tools, max_iterations, query, state, current_iteration,
          final_answer, done_steps, to_do_steps, step_results, memory,
          response, prompt, ret, calls, tool_runs, tool_call, last_turn,
          i_pc, i_text, i_variables, i_out, fn, input, output>>

agent_vars == <<pc, tools, max_iterations, query, state, current_iteration,
                final_answer, done_steps, to_do_steps, step_results, memory,
                response, prompt, ret, calls, tool_runs, tool_call,
                last_turn>>

interp_vars == <<i_pc, i_text, i_variables, i_out>>

pure_vars == <<fn, input, output>>

-----------------------------------------------------------------------------
(* Bounds *)

MaxIter == 2

MaxText == 4

-----------------------------------------------------------------------------
(* Optional values and Python truthiness *)

None == [some |-> FALSE, val |-> <<>>]

Some(v) == [some |-> TRUE, val |-> v]

\* bool(s) of a Python str, or of an optional str
Truthy(s) == Len(s) > 0

TruthyOpt(o) == o.some /\ Truthy(o.val)

-----------------------------------------------------------------------------
(* Strings *)

\* does t start with p at (1-based) position i
MatchAt(t, p, i) ==
    /\ i + Len(p) - 1 <= Len(t)
    /\ \A k \in 1..Len(p) : t[i + k - 1] = p[k]

\* p in t  (Python substring test)
IsSubstr(p, t) == \E i \in 1..(Len(t) + 1) : MatchAt(t, p, i)

RECURSIVE ReplaceFrom(_, _, _, _)
ReplaceFrom(t, old, new, i) ==
    IF i > Len(t) THEN <<>>
    ELSE IF MatchAt(t, old, i)
         THEN new \o ReplaceFrom(t, old, new, i + Len(old))
         ELSE <<t[i]>> \o ReplaceFrom(t, old, new, i + 1)

\* str.replace(old, new) for a non-empty old: every non-overlapping
\* occurrence, found left to right
StrReplace(t, old, new) == ReplaceFrom(t, old, new, 1)

\* str.upper() on the tool names that occur
Upper(n) ==
    CASE n \in {"echo", "Echo", "ECHO"} -> "ECHO"
      [] n \in {"risky", "RISKY"}       -> "RISKY"
      [] n \in {"ghost", "GHOST"}       -> "GHOST"
      [] OTHER                          -> n

-----------------------------------------------------------------------------
(* Insertion-ordered dict: a sequence of [name, value] with unique names *)

DictHas(d, k) == \E i \in 1..Len(d) : d[i].name = k

DictGet(d, k) == d[CHOOSE i \in 1..Len(d) : d[i].name = k].value

\* d[k] = v : an existing key keeps its position, a new key goes last
DictSet(d, k, v) ==
    IF DictHas(d, k)
    THEN [i \in 1..Len(d) |->
            IF d[i].name = k THEN [name |-> k, value |-> v] ELSE d[i]]
    ELSE Append(d, [name |-> k, value |-> v])

-----------------------------------------------------------------------------
(* Interpolation, Agent._replace_interpolated_variables *)

Marker(name) == <<"$", name, "$">>

RECURSIVE ReplaceVarsFrom(_, _, _)
ReplaceVarsFrom(text, variables, i) ==
    IF i > Len(variables) THEN text
    ELSE ReplaceVarsFrom(
            StrReplace(text, Marker(variables[i].name), variables[i].value),
            variables, i + 1)

\* for variable, value in variables.items(): text = text.replace(...)
_replace_interpolated_variables(text, variables) ==
    ReplaceVarsFrom(text, variables, 1)

\* key.replace("-", "_").replace(" ", "_") on the argument keys that occur
ValidKey(k) ==
    CASE k = "max-lines" -> "max_lines"
      [] OTHER         -> k

\* a Python str object
Str(s) == [type |-> "str", val |-> s]

RECURSIVE NamedArgsFrom(_, _, _)
\* named_args[valid_key] = interpolated_value
NamedArgsFrom(arguments, variables, i) ==
    IF i = 0 THEN <<>>
    ELSE DictSet(NamedArgsFrom(arguments, variables, i - 1),
                 ValidKey(arguments[i].name),
                 Str(_replace_interpolated_variables(arguments[i].value,
                                                     variables)))

\* the named_args dict built by _handle_action
NamedArgs(arguments, variables) ==
    NamedArgsFrom(arguments, variables, Len(arguments))

-----------------------------------------------------------------------------
(* Responses *)

NoAction ==
    [some |-> FALSE, step_name |-> "", tool_name |-> "", arguments |-> <<>>]

\* models.response.Step, the fields the ledger reads or writes
Step(n) == [name |-> n, result |-> None]

NoThought ==
    [some |-> FALSE, reasoning |-> <<>>, to_do |-> <<>>, done |-> <<>>]

NoResponse ==
    [thought |-> NoThought, action |-> NoAction,
     final_answer |-> None, action_result |-> None]

ParseFailure == [ok |-> FALSE, response |-> NoResponse]

ParseSuccess(r) == [ok |-> TRUE, response |-> r]

-----------------------------------------------------------------------------
(* XML documents, as the two parsers see them.

   wf: the text is well-formed XML (lxml without recovery accepts it); the
   other fields describe the element tree, for a text that is not
   well-formed the tree the recovering parser of BeautifulSoup builds.
   root: the tag of the document element.  thought: the <thought> element,
   its own text, and its <reasoning>, <to_do>, <done> children.  A container
   is a <to_do> or <done> element: tag is the tag of its children.  A step
   element has an optional <name>, a <description> and a <reason> that are
   there or not, and an optional <result>.  action.args_form: "none" (no
   <arguments>), "named" (<n>v</n> children) or "pairs"
   (<arg><name>n</name><value>v</value></arg> children). *)

NoContainer == [some |-> FALSE, tag |-> "step", steps |-> <<>>]

StepElem(n) ==
    [name |-> Some(n), description |-> TRUE, reason |-> TRUE, result |-> None]

\* <to_do><step>...</step>...</to_do> with one well-formed step per name
StepsOf(names) ==
    [some |-> TRUE, tag |-> "step",
     steps |-> [i \in 1..Len(names) |-> StepElem(names[i])]]

DocNoThought ==
    [some |-> FALSE, text |-> <<>>, reasoning |-> None,
     to_do |-> NoContainer, done |-> NoContainer]

\* <thought>text</thought>
DocThoughtText(text) ==
    [some |-> TRUE, text |-> text, reasoning |-> None,
     to_do |-> NoContainer, done |-> NoContainer]

\* <thought><reasoning/><to_do/><done/></thought>
DocThought(reasoning, to_do, done) ==
    [some |-> TRUE, text |-> <<>>, reasoning |-> Some(reasoning),
     to_do |-> to_do, done |-> done]

DocAction(has_step, has_tool, sn, tn, args) ==
    [some |-> TRUE, has_step_name |-> has_step, has_tool_name |-> has_tool,
     step_name |-> sn, tool_name |-> tn, args_form |-> "named",
     arguments |-> args]

DocNoAction ==
    [some |-> FALSE, has_step_name |-> FALSE, has_tool_name |-> FALSE,
     step_name |-> "", tool_name |-> "", args_form |-> "none",
     arguments |-> <<>>]

-----------------------------------------------------------------------------
(* Extraction, Agent._first_xml_code_block.  The reply of the model is a
   sequence of tokens: the fences of a markdown code block, the tags
   "<response>" and "</response>", whitespace, and other text without
   whitespace.  A fence is three backquotes, written ''' in the tokens. *)

Whitespace(tok) == tok \in {" ", "\n"}

\* the closing fence matches at a fence and at the start of an opening one
IsFence(tok) == tok \in {"'''", "'''xml"}

RECURSIVE LStrip(_)
LStrip(s) ==
    IF Len(s) > 0 /\ Whitespace(s[1]) THEN LStrip(Tail(s)) ELSE s

RECURSIVE RStrip(_)
RStrip(s) ==
    IF Len(s) > 0 /\ Whitespace(s[Len(s)])
    THEN RStrip(SubSeq(s, 1, Len(s) - 1)) ELSE s

Strip(s) == RStrip(LStrip(s))

Least(S) == CHOOSE i \in S : \A j \in S : i <= j

\* the first re.search of _first_xml_code_block, group 1: what stands
\* between an opening xml fence and the next fence, without the whitespace
\* at its ends
FencedBlock(text) ==
    LET opens == { i \in 1..Len(text) :
                     /\ text[i] = "'''xml"
                     /\ \E j \in (i + 1)..Len(text) : IsFence(text[j]) }
    IN  IF opens = {} THEN None
        ELSE LET i == Least(opens)
                 j == Least({ k \in (i + 1)..Len(text) : IsFence(text[k]) })
             IN  Some(Strip(SubSeq(text, i + 1, j - 1)))

\* the class [\\s\S] of the second pattern: a backslash, the letter s, or
\* any character that is not whitespace
InClass(tok) == ~Whitespace(tok)

\* re.search(r"(<response>[\\s\S]*?</response>)", input): group 1
ResponseBlock(text) ==
    LET starts == { i \in 1..Len(text) :
                      /\ text[i] = "<response>"
                      /\ \E j \in (i + 1)..Len(text) :
                            /\ text[j] = "</response>"
                            /\ \A k \in (i + 1)..(j - 1) : InClass(text[k]) }
    IN  IF starts = {} THEN None
        ELSE LET i == Least(starts)
                 j == Least({ k \in (i + 1)..Len(text) :
                                text[k] = "</response>" })
             IN  Some(SubSeq(text, i, j))

_first_xml_code_block(text) ==
    IF FencedBlock(text).some THEN FencedBlock(text) ELSE ResponseBlock(text)

-----------------------------------------------------------------------------
(* Parsing *)

\* Response(**response_data): thought must be a Thought, not a str, and an
\* Action needs its step_name; validate_response tests "answer" in values,
\* which is never a validated field, and so never raises
Response_validate(data) ==
    IF data.thought_is_str THEN ParseFailure
    ELSE IF data.action.some /\ ~data.action.has_step_name THEN ParseFailure
    ELSE ParseSuccess(
            [thought |-> data.thought,
             action |-> IF data.action.some
                        THEN [some |-> TRUE,
                              step_name |-> data.action.step_name,
                              tool_name |-> data.action.tool_name,
                              arguments |-> data.action.arguments]
                        ELSE NoAction,
             final_answer |-> data.final_answer,
             action_result |-> None])

RECURSIVE PairArgsFrom(_, _)
PairArgsFrom(items, i) ==
    IF i = 0 THEN <<>>
    ELSE IF items[i].name # ""
    THEN DictSet(PairArgsFrom(items, i - 1), items[i].name, items[i].value)
    ELSE PairArgsFrom(items, i - 1)

\* ResponseXmlParser._parse_arguments: the <arg> children only
ResponseXmlParser_parse_arguments(action) ==
    IF action.some /\ action.args_form = "pairs"
    THEN PairArgsFrom(action.arguments, Len(action.arguments))
    ELSE <<>>

\* ResponseXmlParser._parse_steps: the <step> children, with defaults
ResponseXmlParser_parse_steps(container) ==
    IF ~container.some \/ container.tag # "step" THEN <<>>
    ELSE [i \in 1..Len(container.steps) |->
            [name |-> IF container.steps[i].name.some
                      THEN container.steps[i].name.val ELSE "unnamed_step",
             result |-> IF container.steps[i].result.some
                        THEN container.steps[i].result ELSE Some(<<>>)]]

\* ResponseXmlParser.parse: Format 2 hands Response a str for thought and
\* Format 1 builds the action without a step_name
ResponseXmlParser_parse(doc) ==
    IF ~doc.wf THEN ParseFailure
    ELSE IF doc.answer.some
    THEN Response_validate(
            [thought_is_str |-> TRUE, thought |-> NoThought,
             action |-> DocNoAction, final_answer |-> None])
    ELSE Response_validate(
            [thought_is_str |-> FALSE,
             thought |->
                [some |-> TRUE,
                 reasoning |-> IF doc.thought.reasoning.some
                               THEN doc.thought.reasoning.val ELSE <<>>,
                 to_do |-> ResponseXmlParser_parse_steps(doc.thought.to_do),
                 done |-> ResponseXmlParser_parse_steps(doc.thought.done)],
             action |->
                [some |-> TRUE, has_step_name |-> FALSE,
                 step_name |-> "",
                 tool_name |-> IF doc.action.has_tool_name
                               THEN doc.action.tool_name ELSE "no_tool",
                 arguments |-> ResponseXmlParser_parse_arguments(doc.action)],
             final_answer |-> None])

\* element.text is not blank, for a step element and for a container
StepHasText(e) ==
    e.name.some \/ e.description \/ e.reason \/ TruthyOpt(e.result)

ContainerHasText(c) ==
    c.some /\ \E i \in 1..Len(c.steps) : StepHasText(c.steps[i])

\* thought_elem.text.strip(): the text of the element and its descendants
ThoughtHasText(th) ==
    \/ Truthy(th.text)
    \/ TruthyOpt(th.reasoning)
    \/ ContainerHasText(th.to_do)
    \/ ContainerHasText(th.done)

RECURSIVE StepsMarkup(_, _, _)
StepsMarkup(tag, steps, i) ==
    IF i > Len(steps) THEN <<>>
    ELSE <<"<", tag, ">">>
         \o (IF steps[i].name.some
             THEN <<"<name>", steps[i].name.val, "</name>">> ELSE <<>>)
         \o (IF steps[i].result.some
             THEN <<"<result>">> \o steps[i].result.val \o <<"</result>">>
             ELSE <<>>)
         \o <<"</", tag, ">">>
         \o StepsMarkup(tag, steps, i + 1)

ContainerMarkup(name, c) ==
    IF ~c.some THEN <<>>
    ELSE <<"<", name, ">">> \o StepsMarkup(c.tag, c.steps, 1)
         \o <<"</", name, ">">>

\* ResponseBs4XmlParser._get_text_or_cdata(thought_elem): the children of
\* the element as markup
ThoughtMarkup(th) ==
    th.text
    \o (IF th.reasoning.some
        THEN <<"<reasoning>">> \o th.reasoning.val \o <<"</reasoning>">>
        ELSE <<>>)
    \o ContainerMarkup("to_do", th.to_do)
    \o ContainerMarkup("done", th.done)

\* ResponseBs4XmlParser._parse_step raises unless name, description and
\* reason are there
StepElemOk(e) == e.name.some /\ e.description /\ e.reason

\* the <step> descendants of a container
StepElems(c) == IF c.some /\ c.tag = "step" THEN c.steps ELSE <<>>

ResponseBs4XmlParser_parse_step(e) == [name |-> e.name.val, result |-> e.result]

RECURSIVE NamedArgsOf(_, _)
\* a child counts when it is an element with a string: an empty element
\* has none
NamedArgsOf(items, i) ==
    IF i = 0 THEN <<>>
    ELSE IF items[i].name # "" /\ Truthy(items[i].value)
    THEN DictSet(NamedArgsOf(items, i - 1), items[i].name, items[i].value)
    ELSE NamedArgsOf(items, i - 1)

\* ResponseBs4XmlParser._parse_arguments: an <arg> with a <name> and a
\* <value> child has no string of its own and is skipped
ResponseBs4XmlParser_parse_arguments(action) ==
    IF action.some /\ action.args_form = "named"
    THEN NamedArgsOf(action.arguments, Len(action.arguments))
    ELSE <<>>

\* ResponseBs4XmlParser.parse
ResponseBs4XmlParser_parse(doc) ==
    IF doc.root # "response" THEN ParseFailure
    ELSE IF ~doc.thought.some \/ ~ThoughtHasText(doc.thought)
    THEN ParseFailure
    ELSE IF doc.final_answer.some
    THEN ParseSuccess([thought |-> [some |-> TRUE,
                                    reasoning |-> ThoughtMarkup(doc.thought),
                                    to_do |-> <<>>, done |-> <<>>],
                       action |-> NoAction,
                       final_answer |-> doc.final_answer,
                       action_result |-> None])
    ELSE IF ~doc.action.some THEN ParseFailure
    ELSE IF \E i \in 1..Len(StepElems(doc.thought.to_do)) :
                ~StepElemOk(StepElems(doc.thought.to_do)[i])
    THEN ParseFailure
    ELSE IF \E i \in 1..Len(StepElems(doc.thought.done)) :
                ~StepElemOk(StepElems(doc.thought.done)[i])
    THEN ParseFailure
    ELSE IF ~doc.action.has_step_name \/ ~doc.action.has_tool_name
    THEN ParseFailure
    ELSE ParseSuccess(
            [thought |->
                [some |-> TRUE,
                 reasoning |-> IF doc.thought.reasoning.some
                               THEN doc.thought.reasoning.val ELSE <<>>,
                 to_do |-> [i \in 1..Len(StepElems(doc.thought.to_do)) |->
                              ResponseBs4XmlParser_parse_step(
                                  StepElems(doc.thought.to_do)[i])],
                 done |-> [i \in 1..Len(StepElems(doc.thought.done)) |->
                             ResponseBs4XmlParser_parse_step(
                                 StepElems(doc.thought.done)[i])]],
             action |-> [some |-> TRUE,
                         step_name |-> doc.action.step_name,
                         tool_name |-> doc.action.tool_name,
                         arguments |->
                            ResponseBs4XmlParser_parse_arguments(doc.action)],
             final_answer |-> None,
             action_result |-> None])

ResponseParserRegistered(doc) ==
    IF /\ ResponseBs4XmlParser_parse(doc).ok
       /\ ResponseBs4XmlParser_parse(doc).response.action.some
       /\ Upper(ResponseBs4XmlParser_parse(doc).response.action.tool_name)
             \notin DOMAIN tools
    THEN ParseFailure
    ELSE ResponseBs4XmlParser_parse(doc)

\* ResponseParser.parse: the strict parser, then the lenient one
ResponseParser_parse(doc) ==
    IF ResponseXmlParser_parse(doc).ok THEN ResponseXmlParser_parse(doc)
    ELSE ResponseBs4XmlParser_parse(doc)

\* Agent._parse_response; a failure is the ValueError it raises.  reply.doc
\* is the document the extracted text holds
_parse_response(reply) ==
    IF /\ _first_xml_code_block(reply.text).some
       /\ Truthy(_first_xml_code_block(reply.text).val)
    THEN ResponseParser_parse(reply.doc)
    ELSE ParseFailure

\* PydanticToXMLSerializer.serialize(response, lowercase=lowercase): the
\* class name as root tag, one child per field of model_dump, None written
\* as the text "None", list items as <item>, dict entries as named children
SerializeSteps(steps) ==
    [some |-> TRUE, tag |-> "item",
     steps |-> [i \in 1..Len(steps) |->
                  [name |-> Some(steps[i].name), description |-> TRUE,
                   reason |-> TRUE,
                   result |-> IF steps[i].result.some THEN steps[i].result
                              ELSE Some(<<"None">>)]]]

PydanticToXMLSerializer_serialize(r, lowercase) ==
    [wf |-> TRUE,
     root |-> IF lowercase THEN "response" ELSE "Response",
     thought |-> IF r.thought.some
                 THEN DocThought(r.thought.reasoning,
                                 SerializeSteps(r.thought.to_do),
                                 SerializeSteps(r.thought.done))
                 ELSE DocThoughtText(<<"None">>),
     final_answer |-> IF r.final_answer.some THEN r.final_answer
                      ELSE Some(<<"None">>),
     answer |-> None,
     action |-> IF r.action.some
                THEN DocAction(TRUE, TRUE, r.action.step_name,
                               r.action.tool_name, r.action.arguments)
                ELSE [DocNoAction EXCEPT !.some = TRUE]]

-----------------------------------------------------------------------------
(* Exceptions *)

\* the exceptions a turn can raise: the ValueError of _parse_response, any
\* Exception out of model.generate, and the AttributeError of the except
\* block of _handle_action (rich.text.Text has no method escape)
Exceptions == {"ValueError", "ModelError", "AttributeError"}

ExceptValueError(e) == e = "ValueError"

\* the clause "except Exception" of execute and of _run_thinking_loop
ExceptException(e) == e \in Exceptions

-----------------------------------------------------------------------------
(* Tool resolution, Agent._handle_action *)

NotFound(tool_name) == <<"Tool not found: ", tool_name>>

NotApproved == <<"Action not approved by user">>

HandleActionNoUpper(action, approve, outcome) ==
    LET tool_name == action.tool_name
        found == tool_name \in DOMAIN tools
        named_args == NamedArgs(action.arguments, step_results)
    IN  IF ~found
        THEN [raised |-> FALSE, kind |-> "not_found", tool |-> tool_name,
              result |-> NotFound(tool_name), asked |-> FALSE,
              approved |-> FALSE, ran |-> FALSE, named_args |-> <<>>]
        ELSE [raised |-> FALSE, kind |-> "executed", tool |-> tool_name,
              result |-> outcome.result, asked |-> FALSE,
              approved |-> FALSE, ran |-> TRUE, named_args |-> named_args]

HandleActionNoApproval(action, approve, outcome) ==
    LET tool_name == Upper(action.tool_name)
        found == tool_name \in DOMAIN tools
        asked == found /\ tools[tool_name].need_validation
        named_args == NamedArgs(action.arguments, step_results)
    IN  IF ~found
        THEN [raised |-> FALSE, kind |-> "not_found", tool |-> tool_name,
              result |-> NotFound(tool_name), asked |-> FALSE,
              approved |-> FALSE, ran |-> FALSE, named_args |-> <<>>]
        ELSE [raised |-> FALSE, kind |-> "executed", tool |-> tool_name,
              result |-> outcome.result, asked |-> asked,
              approved |-> asked /\ approve, ran |-> TRUE,
              named_args |-> named_args]

\* the type a tool declares for an argument (ToolArgument.type)
DeclaredType(tool, name) ==
    IF \E i \in 1..Len(tool.arguments) : tool.arguments[i].name = name
    THEN tool.arguments[CHOOSE i \in 1..Len(tool.arguments) :
                           tool.arguments[i].name = name].type
    ELSE "string"

CoerceArgs(tool, named_args) ==
    [i \in 1..Len(named_args) |->
        [name |-> named_args[i].name,
         value |-> [type |-> IF DeclaredType(tool, named_args[i].name) = "int"
                             THEN "int" ELSE "str",
                    val |-> named_args[i].value.val]]]

HandleActionCoerce(action, approve, outcome) ==
    LET tool_name == Upper(action.tool_name)
        found == tool_name \in DOMAIN tools
        asked == found /\ tools[tool_name].need_validation
        named_args == CoerceArgs(tools[tool_name],
                                 NamedArgs(action.arguments, step_results))
    IN  IF ~found
        THEN [raised |-> FALSE, kind |-> "not_found", tool |-> tool_name,
              result |-> NotFound(tool_name), asked |-> FALSE,
              approved |-> FALSE, ran |-> FALSE, named_args |-> <<>>]
        ELSE IF asked /\ ~approve
        THEN [raised |-> FALSE, kind |-> "not_approved", tool |-> tool_name,
              result |-> NotApproved, asked |-> TRUE,
              approved |-> FALSE, ran |-> FALSE, named_args |-> <<>>]
        ELSE IF outcome.raises
        THEN [raised |-> TRUE, kind |-> "tool_error", tool |-> tool_name,
              result |-> <<>>, asked |-> asked,
              approved |-> asked /\ approve, ran |-> TRUE,
              named_args |-> named_args]
        ELSE [raised |-> FALSE, kind |-> "executed", tool |-> tool_name,
              result |-> outcome.result, asked |-> asked,
              approved |-> asked /\ approve, ran |-> TRUE,
              named_args |-> named_args]

\* approve: the user's answer if asked; outcome: what tool.execute does
_handle_action(action, approve, outcome) ==
    LET tool_name == Upper(action.tool_name)
        found == tool_name \in DOMAIN tools
        asked == found /\ tools[tool_name].need_validation
        named_args == NamedArgs(action.arguments, step_results)
    IN  IF ~found
        THEN [raised |-> FALSE, kind |-> "not_found", tool |-> tool_name,
              result |-> NotFound(tool_name), asked |-> FALSE,
              approved |-> FALSE, ran |-> FALSE, named_args |-> <<>>]
        ELSE IF asked /\ ~approve
        THEN [raised |-> FALSE, kind |-> "not_approved", tool |-> tool_name,
              result |-> NotApproved, asked |-> TRUE,
              approved |-> FALSE, ran |-> FALSE, named_args |-> <<>>]
        ELSE IF outcome.raises
        \* the except block calls Text(error_trace).escape(), which raises
        \* AttributeError before the error string is returned
        THEN [raised |-> TRUE, kind |-> "tool_error", tool |-> tool_name,
              result |-> <<>>, asked |-> asked,
              approved |-> asked /\ approve, ran |-> TRUE,
              named_args |-> named_args]
        ELSE [raised |-> FALSE, kind |-> "executed", tool |-> tool_name,
              result |-> outcome.result, asked |-> asked,
              approved |-> asked /\ approve, ran |-> TRUE,
              named_args |-> named_args]

-----------------------------------------------------------------------------
(* The ledger, Agent._add_to_memory *)

SavedIn(name) == <<"Result saved in ", "$", name, "$", " variable">>

Tail1(s) == IF Len(s) = 0 THEN <<>> ELSE Tail(s)

\* _add_to_memory keeping only the variable of the current step
AddToMemoryForgets(r) ==
    IF r.thought.some /\ Len(r.thought.to_do) > 0 /\ ~r.final_answer.some
    THEN LET current_step == r.thought.to_do[1]
         IN  [done_steps |->
                 Append(done_steps,
                        [name |-> current_step.name,
                         result |-> Some(SavedIn(current_step.name))]),
              to_do_steps |-> Tail1(r.thought.to_do),
              step_results |->
                 IF TruthyOpt(r.action_result)
                 THEN <<[name |-> current_step.name,
                         value |-> r.action_result.val]>>
                 ELSE <<>>,
              memory |-> memory + 1]
    ELSE [done_steps |-> done_steps, to_do_steps |-> to_do_steps,
          step_results |-> step_results,
          memory |-> memory + 1]

\* the ledger after _add_to_memory(r)
_add_to_memory(r) ==
    IF r.final_answer.some
    THEN [done_steps |-> done_steps, to_do_steps |-> to_do_steps,
          step_results |-> step_results,
          memory |-> memory + 1]
    ELSE IF r.thought.some /\ Len(r.thought.to_do) > 0
    THEN LET current_step == r.thought.to_do[1]
         IN  [done_steps |->
                 Append(done_steps,
                        [name |-> current_step.name,
                         result |-> Some(SavedIn(current_step.name))]),
              to_do_steps |-> Tail1(r.thought.to_do),
              step_results |->
                 IF TruthyOpt(r.action_result)
                 THEN DictSet(step_results, current_step.name,
                              r.action_result.val)
                 ELSE step_results,
              memory |-> memory + 1]
    ELSE [done_steps |-> done_steps, to_do_steps |-> to_do_steps,
          step_results |-> step_results,
          memory |-> memory + 1]

-----------------------------------------------------------------------------
(* The prompt, Agent._prepare_prompt *)

RECURSIVE Lines(_, _)
\* "\n".join(f(x) for x in seq)
Lines(seq, i) ==
    IF i > Len(seq) THEN <<>>
    ELSE (IF i > 1 THEN <<"\n">> ELSE <<>>) \o seq[i] \o Lines(seq, i + 1)

\* PydanticToXMLSerializer.serialize(step), the fields kept by Step
SerializeStep(step) ==
    <<"<Step><name>", step.name, "</name><result>">>
    \o (IF step.result.some THEN step.result.val ELSE <<"None">>)
    \o <<"</result></Step>">>

\* Agent._format_tasks
_format_tasks ==
    (IF final_answer.some
     THEN <<"<final_answer>">> \o final_answer.val \o <<"</final_answer>", "\n">>
     ELSE <<>>)
    \o <<"  <done>", "\n">>
    \o Lines([i \in 1..Len(done_steps) |-> SerializeStep(done_steps[i])], 1)
    \o <<"  </done>", "\n", "  <to_do>", "\n">>
    \o Lines([i \in 1..Len(to_do_steps) |-> SerializeStep(to_do_steps[i])], 1)
    \o <<"  </to_do>", "\n", "  <variables>", "\n">>
    \o Lines([i \in 1..Len(step_results) |->
                <<"    <variable>", "$", step_results[i].name, "$",
                  "</variable>">>], 1)
    \o <<"  </variables>">>

\* Agent._format_step_result_variables
_format_step_result_variables ==
    IF Len(step_results) = 0 THEN <<"No step results available.">>
    ELSE Lines([i \in 1..Len(step_results) |->
                  <<"   <", step_results[i].name, ">">>
                  \o step_results[i].value
                  \o <<"</", step_results[i].name, ">">>], 1)

\* query_template(...): the parts that vary with the agent's state
_prepare_prompt ==
    <<"<query>", query, "</query>", "<step_result_variables>", "\n">>
    \o _format_step_result_variables
    \o <<"\n", "</step_results_variables>", "<history>", "\n">>
    \o _format_tasks
    \o <<"\n", "</history>">>

\* Agent._get_final_answer
NoAnswerFound == <<"No answer found">>

\* "if self.final_answer:"
HasFinalAnswer(o) == TruthyOpt(o)

_get_final_answer(answer) ==
    IF HasFinalAnswer(answer)
    THEN [kind |-> "final_answer", text |-> answer.val]
    ELSE [kind |-> "no_answer", text |-> NoAnswerFound]

Pending == [kind |-> "pending", text |-> <<>>]

\* kind: what the turn came to; tool_name, step_name: the names the action
\* gave; observation: the string _handle_action returned; asked, approved:
\* the approval prompt; step: the name of the first to_do step of the
\* thought; rerun: no turn has ended yet in an execute() that was started
\* after an earlier one returned
NoTurn ==
    [kind |-> "none", tool_name |-> "", step_name |-> "",
     observation |-> None, asked |-> FALSE, approved |-> FALSE, step |-> "",
     rerun |-> FALSE]

\* ran: tool.execute was called; tool: the key it was found under;
\* arguments, variables: action.arguments and step_results at the call;
\* named_args: what execute received
NoCall ==
    [ran |-> FALSE, tool |-> "", arguments |-> <<>>, variables |-> <<>>,
     named_args |-> <<>>]

-----------------------------------------------------------------------------
(* What the environment can supply *)

Queries == {"q1", "q2"}

\* the tools main.py-style callers register: name as given, need_validation
ToolBox ==
    { [name |-> "Echo", need_validation |-> FALSE,
       arguments |-> <<[name |-> "text", type |-> "string"],
                       [name |-> "max_lines", type |-> "int"]>>],
      [name |-> "risky", need_validation |-> TRUE,
       arguments |-> <<[name |-> "text", type |-> "string"]>>] }

StepNames == {"a", "b"}

ToDoPlans == { <<>>, <<"a">>, <<"b">>, <<"a", "b">> }

ArgPlain == <<"-">>

ArgSpec == <<"$", "a", "$", "-", "$", "b", "$", "-", "$", "c", "$">>

ArgumentSets ==
    { <<[name |-> "text", value |-> ArgPlain]>>,
      <<[name |-> "text", value |-> ArgSpec]>>,
      <<[name |-> "max-lines", value |-> ArgSpec],
        [name |-> "text", value |-> ArgPlain]>> }

\* what tool.execute can do: return a string or raise
ToolOutcomes ==
    { [raises |-> FALSE, result |-> <<"X">>],
      [raises |-> FALSE, result |-> <<>>],
      [raises |-> FALSE, result |-> <<"$", "b", "$">>],
      [raises |-> TRUE, result |-> <<>>] }

FinalAnswers == { <<"4">>, <<>> }

\* the documents a reply can carry
FinalDocs ==
    { [wf |-> TRUE, root |-> "response",
       thought |-> th, final_answer |-> Some(fa), answer |-> None,
       action |-> DocNoAction] :
         th \in {DocThoughtText(<<"t">>), DocNoThought}, fa \in FinalAnswers }

\* the action a document requests: arguments vary for the tool that runs
\* without approval
DocActions ==
    { DocAction(TRUE, TRUE, "a", "echo", args) : args \in ArgumentSets }
    \cup { DocAction(TRUE, TRUE, "a", tn, <<[name |-> "text", value |-> ArgPlain]>>) :
              tn \in {"RISKY", "ghost"} }

ActionDocs ==
    { [wf |-> TRUE, root |-> "response",
       thought |-> DocThought(<<"t">>, StepsOf(plan), NoContainer),
       final_answer |-> None, answer |-> None, action |-> act] :
         plan \in ToDoPlans, act \in DocActions }

\* documents the parser rejects: no action and no final answer, no
\* <response> element, an action without step_name, one without tool_name
BrokenDocs ==
    { [wf |-> TRUE, root |-> "response",
       thought |-> DocThought(<<"t">>, StepsOf(<<>>), NoContainer),
       final_answer |-> None, answer |-> None, action |-> DocNoAction],
      [wf |-> TRUE, root |-> "other",
       thought |-> DocNoThought,
       final_answer |-> None, answer |-> None, action |-> DocNoAction],
      [wf |-> TRUE, root |-> "response",
       thought |-> DocThought(<<"t">>, StepsOf(<<"a">>), NoContainer),
       final_answer |-> None, answer |-> None,
       action |-> DocAction(FALSE, TRUE, "", "echo", <<>>)],
      [wf |-> TRUE, root |-> "response",
       thought |-> DocThought(<<"t">>, StepsOf(<<"a">>), NoContainer),
       final_answer |-> None, answer |-> None,
       action |-> DocAction(TRUE, FALSE, "a", "", <<>>)] }

Docs == FinalDocs \cup ActionDocs \cup BrokenDocs

\* what surrounds the document in the reply: an xml fence, nothing, or
\* nothing around a document that holds whitespace
Fenced == <<"'''xml", "\n", "<response>", "x", "</response>", "\n", "'''">>

Bare == <<"<response>", "x", "</response>">>

BareSpaced == <<"<response>", "\n", "x", "\n", "</response>">>

\* a reply: its text and the document the text holds
Replies ==
    { [text |-> t, doc |-> d] : t \in {Fenced, Bare}, d \in Docs }
    \cup { [text |-> BareSpaced, doc |-> d] : d \in FinalDocs }
    \cup { [text |-> t, doc |-> d] :
             t \in { <<"x">>, <<"'''xml", "\n", "'''">> }, d \in BrokenDocs }

-----------------------------------------------------------------------------
(* The state machine *)

\* Agent._init_
Init ==
    /\ pc = "idle"
    /\ tools = [k \in {} |-> [name |-> "", need_validation |-> FALSE]]
    /\ max_iterations \in 0..MaxIter
    /\ query = ""
    /\ state = "READY"
    /\ current_iteration = 0
    /\ final_answer = None
    /\ done_steps = <<>>
    /\ to_do_steps = <<>>
    /\ step_results = <<>>
    /\ memory = 0
    /\ response = NoResponse
    /\ prompt = <<>>
    /\ ret = Pending
    /\ calls = 0
    /\ tool_runs = 0
    /\ tool_call = NoCall
    /\ last_turn = NoTurn
    /\ i_pc = "off"
    /\ i_text = <<>>
    /\ i_variables = <<>>
    /\ i_out = <<>>
    /\ fn = "off"
    /\ input = <<>>
    /\ output = <<>>

\* Agent.register
Register(tool) ==
    /\ UNCHANGED <<interp_vars, pure_vars>>
    /\ pc \in {"idle", "done"}
    /\ tools' = [k \in DOMAIN tools \cup {Upper(tool.name)} |->
                    IF k = Upper(tool.name) THEN tool ELSE tools[k]]
    /\ UNCHANGED <<pc, max_iterations, query, state, current_iteration,
                   final_answer, done_steps, to_do_steps, step_results,
                   memory, response, prompt, ret, calls, tool_runs,
                   tool_call, last_turn>>

\* execute() without _reset_state's reset of the ledger
ExecuteKeeps(q) ==
    /\ UNCHANGED <<interp_vars, pure_vars>>
    /\ pc \in {"idle", "done"}
    /\ query' = q
    /\ memory' = 0
    /\ current_iteration' = 0
    /\ state' = "READY"
    /\ response' = NoResponse
    /\ prompt' = <<>>
    /\ ret' = Pending
    /\ calls' = 0
    /\ tool_runs' = 0
    /\ tool_call' = NoCall
    /\ last_turn' = [NoTurn EXCEPT !.rerun = (pc = "done")]
    /\ pc' = "loop"
    /\ UNCHANGED <<tools, max_iterations, final_answer, done_steps,
                   step_results, to_do_steps>>

\* Agent.execute up to the loop: _reset_state
Execute(q) ==
    /\ UNCHANGED <<interp_vars, pure_vars>>
    /\ pc \in {"idle", "done"}
    /\ query' = q
    /\ memory' = 0
    /\ final_answer' = None
    /\ done_steps' = <<>>
    /\ step_results' = <<>>
    /\ to_do_steps' = <<>>
    /\ current_iteration' = 0
    /\ state' = "READY"
    /\ response' = NoResponse
    /\ prompt' = <<>>
    /\ ret' = Pending
    /\ calls' = 0
    /\ tool_runs' = 0
    /\ tool_call' = NoCall
    /\ last_turn' = [NoTurn EXCEPT !.rerun = (pc = "done")]
    /\ pc' = "loop"
    /\ UNCHANGED <<tools, max_iterations>>

ThrowSwallowed(e) ==
    /\ pc' = "loop"
    /\ UNCHANGED <<state, ret>>

\* an exception e leaves _think: the handler of _run_thinking_loop, and
\* behind it the handler of execute
Throw(e) ==
    /\ pc' = "done"
    /\ IF ExceptException(e)
       THEN /\ state' = "ERROR"
            /\ ret' = [kind |-> "error_thinking",
                       text |-> <<"Error during thinking:\n", e>>]
       ELSE /\ UNCHANGED state
            /\ ret' = IF ExceptException(e)
                      THEN [kind |-> "error_execution",
                            text |-> <<"Error during execution:\n", e>>]
                      ELSE [kind |-> "raised", text |-> <<e>>]

\* _run_thinking_loop: the while condition is false
LoopExit ==
    /\ UNCHANGED <<interp_vars, pure_vars>>
    /\ pc = "loop"
    /\ ~(current_iteration < max_iterations)
    /\ ret' = _get_final_answer(final_answer)
    /\ pc' = "done"
    /\ UNCHANGED <<tools, max_iterations, query, state, current_iteration,
                   final_answer, done_steps, to_do_steps, step_results,
                   memory, response, prompt, calls, tool_runs, tool_call,
                   last_turn>>

\* _think entering DECIDING at once, without a THINKING state
ThinkDeciding ==
    /\ UNCHANGED <<interp_vars, pure_vars>>
    /\ pc = "loop"
    /\ current_iteration < max_iterations
    /\ state' = "DECIDING"
    /\ current_iteration' = current_iteration + 1
    /\ pc' = "thinking"
    /\ tool_call' = NoCall
    /\ UNCHANGED <<tools, max_iterations, query, final_answer, done_steps,
                   to_do_steps, step_results, memory, response, prompt,
                   calls, tool_runs, last_turn, ret>>

\* _think up to the model call
Think ==
    /\ UNCHANGED <<interp_vars, pure_vars>>
    /\ pc = "loop"
    /\ current_iteration < max_iterations
    /\ state' = "THINKING"
    /\ current_iteration' = current_iteration + 1
    /\ IF current_iteration' > max_iterations
       THEN /\ ret' = _get_final_answer(final_answer)
            /\ pc' = "done"
       ELSE /\ pc' = "thinking"
            /\ UNCHANGED ret
    /\ tool_call' = NoCall
    /\ UNCHANGED <<tools, max_iterations, query, final_answer, done_steps,
                   to_do_steps, step_results, memory, response, prompt,
                   calls, tool_runs, last_turn>>

\* _get_llm_response: model.generate raises
ModelRaises ==
    /\ UNCHANGED <<interp_vars, pure_vars>>
    /\ pc = "thinking"
    /\ prompt' = _prepare_prompt
    /\ calls' = calls + 1
    /\ last_turn' = [NoTurn EXCEPT !.kind = "model_error"]
    /\ Throw("ModelError")
    /\ UNCHANGED <<tools, max_iterations, query, current_iteration,
                   final_answer, done_steps, to_do_steps, step_results,
                   memory, response, tool_runs, tool_call>>

\* _get_llm_response: the reply does not parse
ParseFails ==
    /\ UNCHANGED <<interp_vars, pure_vars>>
    /\ pc = "thinking"
    /\ \E reply \in Replies : ~_parse_response(reply).ok
    /\ prompt' = _prepare_prompt
    /\ calls' = calls + 1
    /\ last_turn' = [NoTurn EXCEPT !.kind = "parse_error"]
    /\ Throw("ValueError")
    /\ UNCHANGED <<tools, max_iterations, query, current_iteration,
                   final_answer, done_steps, to_do_steps, step_results,
                   memory, response, tool_runs, tool_call>>

\* _get_llm_response returns a Response and _decide starts
GetLLMResponse ==
    /\ UNCHANGED <<interp_vars, pure_vars>>
    /\ pc = "thinking"
    /\ \E reply \in Replies :
          /\ _parse_response(reply).ok
          /\ response' = _parse_response(reply).response
    /\ prompt' = _prepare_prompt
    /\ calls' = calls + 1
    /\ state' = "DECIDING"
    /\ pc' = "deciding"
    /\ UNCHANGED <<tools, max_iterations, query, current_iteration,
                   final_answer, done_steps, to_do_steps, step_results,
                   memory, ret, tool_runs, tool_call, last_turn>>

\* _decide: a final answer ends the loop, and execute returns
DecideFinal ==
    /\ state' = "COMPLETE"
    /\ final_answer' = response.final_answer
    /\ ret' = _get_final_answer(final_answer')
    /\ pc' = "done"
    /\ last_turn' = [NoTurn EXCEPT !.kind = "final"]
    /\ UNCHANGED <<done_steps, to_do_steps, step_results, memory, tool_runs,
                   tool_call>>

\* _decide: an action is handled and the turn goes into the ledger
DecideAction ==
    \E approve \in BOOLEAN, outcome \in ToolOutcomes :
        LET h == _handle_action(response.action, approve, outcome)
            r == [response EXCEPT !.action_result = Some(h.result)]
            m == _add_to_memory(r)
        IN  /\ tool_runs' = tool_runs + (IF h.ran THEN 1 ELSE 0)
            /\ tool_call' =
                  IF h.ran
                  THEN [ran |-> TRUE, tool |-> h.tool,
                        arguments |-> response.action.arguments,
                        variables |-> step_results,
                        named_args |-> h.named_args]
                  ELSE NoCall
            /\ last_turn' =
                  [kind |-> h.kind, tool_name |-> response.action.tool_name,
                   step_name |-> response.action.step_name, rerun |-> FALSE,
                   observation |-> IF h.raised THEN None ELSE Some(h.result),
                   asked |-> h.asked, approved |-> h.approved,
                   step |-> IF Len(response.thought.to_do) > 0
                            THEN response.thought.to_do[1].name ELSE ""]
            /\ IF h.raised
               THEN /\ Throw("AttributeError")
                    /\ UNCHANGED <<final_answer, done_steps, to_do_steps,
                                   step_results, memory>>
               ELSE /\ done_steps' = m.done_steps
                    /\ to_do_steps' = m.to_do_steps
                    /\ step_results' = m.step_results
                    /\ memory' = m.memory
                    /\ pc' = "loop"
                    /\ UNCHANGED <<state, ret, final_answer>>

\* _decide: neither a final answer nor an action
DecidePlain ==
    LET m == _add_to_memory(response)
    IN  /\ memory' = m.memory
        /\ pc' = "loop"
        /\ last_turn' = NoTurn
        /\ UNCHANGED <<state, ret, final_answer, done_steps, to_do_steps,
                       step_results, tool_runs, tool_call>>

\* _decide after state = DECIDING
Decide ==
    /\ UNCHANGED <<interp_vars, pure_vars>>
    /\ pc = "deciding"
    /\ response' = NoResponse
    /\ prompt' = <<>>
    /\ IF ~response.thought.some
       THEN /\ Throw("ValueError")
            /\ UNCHANGED <<final_answer, done_steps, to_do_steps,
                           step_results, memory, tool_runs, tool_call,
                           last_turn>>
       ELSE IF response.final_answer.some THEN DecideFinal
       ELSE IF response.action.some THEN DecideAction
       ELSE DecidePlain
    /\ UNCHANGED <<tools, max_iterations, query, current_iteration, calls>>

Next ==
    \/ \E tool \in ToolBox : Register(tool)
    \/ \E q \in Queries : Execute(q)
    \/ LoopExit
    \/ Think
    \/ ModelRaises
    \/ ParseFails
    \/ GetLLMResponse
    \/ Decide

Spec == Init /\ [][Next]_vars

-----------------------------------------------------------------------------
(* Interpolation on its own: a step_results dict is filled the way
   _add_to_memory fills it, then _replace_interpolated_variables is applied
   to a text *)

\* texts in which every marker has its own pair of "$"
InterpTexts ==
    { <<"$", "a", "$", "-", "$", "b", "$", "-", "$", "c", "$">>,
      <<"$", "a", "$">>,
      <<"$", "b", "$", "$", "a", "$">>,
      <<"$", "c", "$", "-", "a">>,
      <<"-">> }

\* results a step can have recorded
InterpValues == { <<"X">>, <<"Y">>, <<"$", "b", "$">>, <<"$", "a", "$">> }

InterpInit ==
    /\ pc = "idle"
    /\ tools = [k \in {} |-> [name |-> "", need_validation |-> FALSE]]
    /\ max_iterations = 0
    /\ query = ""
    /\ state = "READY"
    /\ current_iteration = 0
    /\ final_answer = None
    /\ done_steps = <<>>
    /\ to_do_steps = <<>>
    /\ step_results = <<>>
    /\ memory = 0
    /\ response = NoResponse
    /\ prompt = <<>>
    /\ ret = Pending
    /\ calls = 0
    /\ tool_runs = 0
    /\ tool_call = NoCall
    /\ last_turn = NoTurn
    /\ i_pc = "ready"
    /\ i_text \in InterpTexts
    /\ i_variables = <<>>
    /\ i_out = <<>>
    /\ fn = "off"
    /\ input = <<>>
    /\ output = <<>>

\* self.step_results[current_step_name] = response.action_result
InterpRecord(n, v) ==
    /\ i_pc = "ready"
    /\ i_variables' = DictSet(i_variables, n, v)
    /\ UNCHANGED <<i_pc, i_text, i_out>>
    /\ UNCHANGED <<agent_vars, pure_vars>>

\* _replace_interpolated_variables(text, self.step_results)
InterpApply ==
    /\ i_pc = "ready"
    /\ i_out' = _replace_interpolated_variables(i_text, i_variables)
    /\ i_pc' = "applied"
    /\ UNCHANGED <<i_text, i_variables>>
    /\ UNCHANGED <<agent_vars, pure_vars>>

InterpNext ==
    \/ \E n \in StepNames, v \in InterpValues : InterpRecord(n, v)
    \/ InterpApply

SpecInterp == InterpInit /\ [][InterpNext]_vars

(* The agent untouched since its construction, for the specifications that
   apply one function on its own *)

AgentAtRest ==
    /\ pc = "idle"
    /\ tools = [k \in {} |-> [name |-> "", need_validation |-> FALSE]]
    /\ max_iterations = 0
    /\ query = ""
    /\ state = "READY"
    /\ current_iteration = 0
    /\ final_answer = None
    /\ done_steps = <<>>
    /\ to_do_steps = <<>>
    /\ step_results = <<>>
    /\ memory = 0
    /\ response = NoResponse
    /\ prompt = <<>>
    /\ ret = Pending
    /\ calls = 0
    /\ tool_runs = 0
    /\ tool_call = NoCall
    /\ last_turn = NoTurn
    /\ i_pc = "off"
    /\ i_text = <<>>
    /\ i_variables = <<>>
    /\ i_out = <<>>

-----------------------------------------------------------------------------
(* Extraction on its own: _first_xml_code_block applied to a reply *)

ExtractTokens == {"'''xml", "'''", "<response>", "</response>", "\n", "x"}

\* the replies of at most MaxText tokens
ExtractTexts == UNION { [1..n -> ExtractTokens] : n \in 0..MaxText }

ExtractInit ==
    /\ AgentAtRest
    /\ fn = "ready"
    /\ input \in ExtractTexts
    /\ output = None

\* first_xml = self._first_xml_code_block(response)
ExtractApply ==
    /\ fn = "ready"
    /\ fn' = "_first_xml_code_block"
    /\ output' = _first_xml_code_block(input)
    /\ UNCHANGED <<input, agent_vars, interp_vars>>

SpecExtract == ExtractInit /\ [][ExtractApply]_vars

-----------------------------------------------------------------------------
(* The parser on its own: tools are registered, and ResponseParser.parse
   is applied to a document, or to what the serializer makes of a
   Response *)

\* <to_do> whose one step lacks its <description>
BadSteps ==
    [some |-> TRUE, tag |-> "step",
     steps |-> <<[name |-> Some("a"), description |-> FALSE,
                  reason |-> TRUE, result |-> None]>>]

ParseThoughts ==
    { DocNoThought, DocThoughtText(<<"t">>), DocThoughtText(<<>>),
      DocThought(<<"t">>, StepsOf(<<"a">>), StepsOf(<<"b">>)),
      DocThought(<<"t">>, BadSteps, NoContainer) }

ParseArguments ==
    { <<[name |-> "text", value |-> <<"v">>]>>,
      <<[name |-> "text", value |-> <<"v">>],
        [name |-> "n", value |-> <<>>]>> }

ParseActions ==
    { DocNoAction }
    \cup { [DocAction(hs, ht, IF hs THEN "a" ELSE "",
                      IF ht THEN tn ELSE "", args)
              EXCEPT !.args_form = form] :
             hs \in BOOLEAN, ht \in BOOLEAN, tn \in {"echo", "ghost"},
             form \in {"named", "pairs"}, args \in ParseArguments }

ParseDocs ==
    { [wf |-> wf, root |-> "response", thought |-> th,
       final_answer |-> fa, answer |-> an, action |-> act] :
         wf \in BOOLEAN, th \in ParseThoughts, fa \in {None, Some(<<"4">>)},
         an \in {None, Some(<<"4">>)}, act \in ParseActions }

\* the Responses the serializer is given: a thought with its steps, and
\* an action or a final answer
RoundTripResponses ==
    { [thought |-> [some |-> TRUE, reasoning |-> <<"t">>,
                    to_do |-> [i \in 1..Len(plan) |-> Step(plan[i])],
                    done |-> done],
       action |-> act, final_answer |-> fa, action_result |-> None] :
         plan \in ToDoPlans,
         done \in { <<>>, <<[name |-> "b", result |-> Some(<<"X">>)]>> },
         act \in { NoAction,
                   [some |-> TRUE, step_name |-> "a", tool_name |-> "echo",
                    arguments |-> <<[name |-> "text", value |-> <<"v">>]>>] },
         fa \in {None, Some(<<"4">>)} }

WellFormedResponses ==
    { r \in RoundTripResponses : r.action.some # r.final_answer.some }

ParseInit ==
    /\ AgentAtRest
    /\ fn = "ready"
    /\ input = <<>>
    /\ output = ParseFailure

\* ResponseParser.parse(xml_data), the tools registered at that time noted
ParseApply(doc) ==
    /\ fn = "ready"
    /\ fn' = "ResponseParser.parse"
    /\ input' = [doc |-> doc, registered |-> DOMAIN tools]
    /\ output' = ResponseParser_parse(doc)
    /\ UNCHANGED <<agent_vars, interp_vars>>

\* ResponseParser.parse(PydanticToXMLSerializer.serialize(r, lowercase))
RoundTripApply(r, lowercase) ==
    /\ fn = "ready"
    /\ fn' = "round_trip"
    /\ input' = [response |-> r, lowercase |-> lowercase]
    /\ output' =
          ResponseParser_parse(PydanticToXMLSerializer_serialize(r, lowercase))
    /\ UNCHANGED <<agent_vars, interp_vars>>

ParseNext ==
    \/ \E tool \in ToolBox : Register(tool)
    \/ \E doc \in ParseDocs : ParseApply(doc)
    \/ \E r \in WellFormedResponses, lowercase \in BOOLEAN :
          RoundTripApply(r, lowercase)

SpecParse == ParseInit /\ [][ParseNext]_vars

-----------------------------------------------------------------------------
(* The two file tools on their own.  A call is the path handed to execute
   and what the outside world holds for it: blank (the path is empty or
   whitespace), url (the path is an http(s) URL), download_ok and
   content_type (what requests.get answers), stream_ok (the body arrives
   whole from iter_content), exists, is_file, big (larger
   than MAX_FILE_SIZE), suffix, content, decodable (the bytes decode in the
   encoding asked for), and convert, what MarkItDown().convert does. *)

NoMime == ""

\* mimetypes.guess_type(path)[0] for the suffixes that occur
GuessType(suffix) ==
    CASE suffix = ".txt" -> "text/plain"
      [] suffix = ".pdf" -> "application/pdf"
      [] suffix = ".md"  -> "text/markdown"
      [] suffix = ".zip" -> "application/zip"
      [] OTHER           -> NoMime

MarkdownConverterTool_ALLOWED_MIME_TYPES ==
    {"application/pdf", "application/msword", "text/plain"}

MarkdownConverterTool_get_mime_type(suffix, content_type) ==
    IF content_type # NoMime
       /\ content_type \in MarkdownConverterTool_ALLOWED_MIME_TYPES
    THEN content_type
    ELSE IF GuessType(suffix) # NoMime THEN GuessType(suffix)
    ELSE IF suffix = ".pdf" THEN "application/pdf"
    ELSE IF suffix \in {".doc", ".docx"} THEN "application/msword"
    ELSE IF suffix = ".txt" THEN "text/plain"
    ELSE NoMime

Raise(e) == [raised |-> e, value |-> <<>>]

Return(v) == [raised |-> "", value |-> v]

\* MarkdownConverterTool._validate_file: the exception it raises, or ""
MarkdownConverterTool_validate_file(call, content_type) ==
    IF call.big THEN "ValidationError"
    ELSE IF MarkdownConverterTool_get_mime_type(call.suffix, content_type)
              \notin MarkdownConverterTool_ALLOWED_MIME_TYPES
    THEN "ValidationError"
    ELSE ""

\* MarkdownConverterTool._download_file: the exception it raises, or ""
MarkdownConverterTool_download_file(call) ==
    IF ~call.download_ok THEN "DownloadError"
    ELSE IF call.big THEN "ValidationError"
    ELSE IF ~call.stream_ok THEN "DownloadError"
    ELSE MarkdownConverterTool_validate_file(call, call.content_type)

\* the temporary file _download_file created is still on disk when execute
\* has returned or raised: the file exists once NamedTemporaryFile(delete=
\* False) has run, and only the finally of execute unlinks it, when
\* _download_file has returned its path
MarkdownConverterTool_temp_file(call) ==
    /\ ~call.blank /\ call.url
    /\ call.download_ok /\ ~call.big
    /\ MarkdownConverterTool_download_file(call) # ""

MarkdownConverterTool_execute(call) ==
    IF call.blank THEN Raise("ValidationError")
    ELSE IF call.url /\ MarkdownConverterTool_download_file(call) # ""
    THEN Raise(MarkdownConverterTool_download_file(call))
    ELSE IF ~call.url /\ (~call.exists \/ ~call.is_file)
    THEN Raise("FileReadError")
    ELSE IF MarkdownConverterTool_validate_file(call, NoMime) # ""
    THEN Raise(MarkdownConverterTool_validate_file(call, NoMime))
    ELSE IF call.convert.raises THEN Raise("Exception")
    ELSE Return(call.convert.text)

FileReaderTool_ALLOWED_MIME_TYPES ==
    {"application/pdf", "application/msword",
     "application/vnd.openxmlformats-officedocument.wordprocessingml.document",
     "text/plain", "text/markdown", "text/x-markdown", "text/html",
     "text/xml", "application/json", "text/csv", "application/x-yaml",
     "text/yaml", "text/x-python", "text/x-java-source", "text/javascript",
     "application/javascript"}

\* extension_map.get(suffix) for the suffixes that occur
ExtensionMap(suffix) ==
    CASE suffix = ".md"  -> "text/markdown"
      [] suffix = ".txt" -> "text/plain"
      [] OTHER           -> NoMime

FileReaderTool_get_mime_type(suffix, content_type) ==
    IF content_type # NoMime /\ content_type \in FileReaderTool_ALLOWED_MIME_TYPES
    THEN content_type
    ELSE IF GuessType(suffix) # NoMime
            /\ GuessType(suffix) \in FileReaderTool_ALLOWED_MIME_TYPES
    THEN GuessType(suffix)
    ELSE ExtensionMap(suffix)

\* FileReaderTool._validate_file: raises, or tells whether to convert
FileReaderTool_validate_file(call, content_type) ==
    LET mime_type == FileReaderTool_get_mime_type(call.suffix, content_type)
    IN  IF call.big THEN [raised |-> "FileReadError", convert |-> FALSE]
        ELSE IF mime_type = NoMime THEN [raised |-> "", convert |-> FALSE]
        ELSE IF mime_type \in FileReaderTool_ALLOWED_MIME_TYPES
                /\ mime_type # "text/plain"
        THEN [raised |-> "", convert |-> TRUE]
        ELSE IF mime_type \notin FileReaderTool_ALLOWED_MIME_TYPES
        THEN [raised |-> "FileReadError", convert |-> FALSE]
        ELSE [raised |-> "", convert |-> FALSE]

\* FileReaderTool.execute: every failure comes back as an "Error: " string
FileReaderTool_execute(call) ==
    LET content_type == IF call.url THEN call.content_type ELSE NoMime
        v == FileReaderTool_validate_file(call, content_type)
    IN  IF call.blank THEN Return(<<"Error: Path cannot be empty.">>)
        ELSE IF call.url /\ (~call.download_ok \/ call.big \/ ~call.stream_ok)
        THEN Return(<<"Error: ", "FileReadError">>)
        ELSE IF ~call.url /\ (~call.exists \/ ~call.is_file)
        THEN Return(<<"Error: ", "FileReadError">>)
        ELSE IF v.raised # "" THEN Return(<<"Error: ", v.raised>>)
        ELSE IF v.convert
        THEN (IF call.convert.raises
              THEN Return(<<"Error: An unexpected error occurred while reading the file.">>)
              ELSE Return(call.convert.text))
        ELSE IF ~call.decodable
        THEN Return(<<"Error: Unable to decode file">>)
        ELSE Return(call.content)

\* the temporary file of FileReaderTool._download_file is still on disk:
\* it is created before the body is streamed, and execute unlinks it only
\* when _download_file has returned
FileReaderTool_temp_file(call) ==
    /\ ~call.blank /\ call.url
    /\ call.download_ok /\ ~call.big
    /\ ~call.stream_ok

\* what a call leaves: its result or exception, and the temporary file
Outcome(res, left) ==
    [raised |-> res.raised, value |-> res.value, temp_file |-> left]

Suffixes == {".txt", ".pdf", ".md", ".zip", ""}

ConvertOutcomes ==
    { [raises |-> FALSE, text |-> <<"# Converted Content">>],
      [raises |-> TRUE, text |-> <<>>] }

\* local paths, and URLs that download or not
FileCalls ==
    { [blank |-> b, url |-> FALSE, download_ok |-> FALSE, stream_ok |-> FALSE,
       content_type |-> NoMime, exists |-> e, is_file |-> f, big |-> g,
       suffix |-> s, content |-> <<"Test content">>, decodable |-> d,
       convert |-> c] :
         b \in BOOLEAN, e \in BOOLEAN, f \in BOOLEAN, g \in BOOLEAN,
         s \in Suffixes, d \in BOOLEAN, c \in ConvertOutcomes }
    \cup
    { [blank |-> FALSE, url |-> TRUE, download_ok |-> k, stream_ok |-> m,
       content_type |-> ct, exists |-> TRUE, is_file |-> TRUE, big |-> g,
       suffix |-> s, content |-> <<"Test content">>, decodable |-> d,
       convert |-> c] :
         k \in BOOLEAN, m \in BOOLEAN,
         ct \in {NoMime, "text/plain", "application/pdf"},
         g \in BOOLEAN, s \in Suffixes, d \in BOOLEAN,
         c \in ConvertOutcomes }

FilesInit ==
    /\ AgentAtRest
    /\ fn = "ready"
    /\ input \in FileCalls
    /\ output = Outcome(Return(<<>>), FALSE)

ConvertApply ==
    /\ fn = "ready"
    /\ fn' = "MarkdownConverterTool.execute"
    /\ output' = Outcome(MarkdownConverterTool_execute(input),
                          MarkdownConverterTool_temp_file(input))
    /\ UNCHANGED <<input, agent_vars, interp_vars>>

ReadApply ==
    /\ fn = "ready"
    /\ fn' = "FileReaderTool.execute"
    /\ output' = Outcome(FileReaderTool_execute(input),
                          FileReaderTool_temp_file(input))
    /\ UNCHANGED <<input, agent_vars, interp_vars>>

FilesNext == ConvertApply \/ ReadApply

SpecFiles == FilesInit /\ [][FilesNext]_vars

-----------------------------------------------------------------------------
(* Properties *)

Returned == pc = "done"

\* the turn kinds in which _handle_action ran
ActionKinds == {"not_found", "not_approved", "executed", "tool_error"}

\* C1: execute() never raises to its caller: whenever it has ended, it has
\* handed back a string, which is a final answer, the no-answer sentinel or
\* an error message.
C1_ExecuteNeverRaises ==
    Returned =>
        ret.kind \in {"final_answer", "no_answer", "error_thinking",
                      "error_execution"}

\* execute() has ended in the second iteration because model.generate raised
C1_Witness ==
    /\ Returned
    /\ last_turn.kind = "model_error"
    /\ calls = 2
    /\ ret.kind = "error_thinking"

\* C2: whenever a parsed response carries a final answer, the state is
\* COMPLETE, the loop has ended and execute() returns exactly that final
\* answer text.
C2_FinalAnswerReturned ==
    (Returned /\ last_turn.kind = "final") =>
        /\ state = "COMPLETE"
        /\ final_answer.some
        /\ ret.text = final_answer.val

\* C3: when every reply of the model is a parseable action response,
\* execute() ends after exactly max_iterations model calls and returns the
\* no-answer sentinel.
C3_BudgetExhausted ==
    (Returned /\ last_turn.kind \in ActionKinds \cup {"none"}) =>
        /\ calls = max_iterations
        /\ current_iteration = max_iterations
        /\ ret.kind = "no_answer"

\* C4 as claimed: a reply that cannot be parsed never ends execute() by
\* itself: the state does not become ERROR, and the call ends only with
\* the budget used up and the no-answer sentinel.
C4_ParseFailureRetried ==
    last_turn.kind = "parse_error" =>
        /\ state # "ERROR"
        /\ Returned => (calls = max_iterations /\ ret.kind = "no_answer")

\* C4 as amended: a reply that cannot be parsed ends execute(): the state
\* is ERROR, the failed attempt has used one iteration, nothing went into
\* the ledger that turn, no model or tool call follows and execute()
\* returns an "Error during thinking" string.
C4_ParseFailureIsFatal ==
    last_turn.kind = "parse_error" =>
        /\ Returned
        /\ state = "ERROR"
        /\ ret.kind = "error_thinking"
        /\ calls = current_iteration
        /\ ~tool_call.ran
        /\ last_turn.observation = None

\* the first reply is parsed and handled, the second one cannot be parsed
C4_Witness ==
    /\ last_turn.kind = "parse_error"
    /\ calls = 2
    /\ Len(done_steps) = 1
    /\ state = "ERROR"

\* C5: a tool whose execute raises is not fatal: the state does not become
\* ERROR, the turn leaves an observation and execute() does not return an
\* error string for it.
C5_ToolFailureNotFatal ==
    last_turn.kind = "tool_error" =>
        /\ state # "ERROR"
        /\ last_turn.observation.some
        /\ ret.kind \notin {"error_thinking", "error_execution"}

\* no registered tool has this name, compared case-insensitively
Unregistered(n) ==
    \A k \in DOMAIN tools : Upper(tools[k].name) # Upper(n)

C7_ModelFailureIsFatal ==
    last_turn.kind = "model_error" =>
        /\ Returned
        /\ state = "ERROR"
        /\ ret.kind = "error_thinking"
        /\ calls = current_iteration
        /\ ~tool_call.ran

\* model.generate raised in the first iteration, with iterations left
C7_Witness ==
    /\ last_turn.kind = "model_error"
    /\ calls = 1
    /\ max_iterations = 2
    /\ Returned

\* C8: the observation of a handled action is contained in the prompt
\* built for the next iteration.
C8_ObservationInNextPrompt ==
    (pc = "deciding" /\ last_turn.observation.some) =>
        IsSubstr(last_turn.observation.val, prompt)

C9_WitnessApproved ==
    /\ tool_call.ran
    /\ tools[tool_call.tool].need_validation
    /\ last_turn.approved

\* the characters of a variable name, [a-zA-Z0-9_]
NameTokens == {"a", "b", "c", "X", "ECHO", "RISKY", "GHOST"}

\* the first position after i that holds no name character
RECURSIVE NameEnd(_, _)
NameEnd(text, i) ==
    IF i + 1 <= Len(text) /\ text[i + 1] \in NameTokens
    THEN NameEnd(text, i + 1)
    ELSE i + 1

\* a marker $name$ starts at i
IsMarkerAt(text, i) ==
    /\ text[i] = "$"
    /\ NameEnd(text, i) > i + 1
    /\ NameEnd(text, i) <= Len(text)
    /\ text[NameEnd(text, i)] = "$"

\* the substitution C10 states: the markers of the text, read left to
\* right, each replaced by its variable's value or, when no variable has
\* that name, kept as written
RECURSIVE Interpolated(_, _, _)
Interpolated(text, V, i) ==
    IF i > Len(text) THEN <<>>
    ELSE IF IsMarkerAt(text, i)
    THEN LET j == NameEnd(text, i)
             name == SubSeq(text, i + 1, j - 1)
         IN  (IF Len(name) = 1 /\ DictHas(V, name[1])
              THEN DictGet(V, name[1])
              ELSE SubSeq(text, i, j))
             \o Interpolated(text, V, j + 1)
    ELSE <<text[i]>> \o Interpolated(text, V, i + 1)

\* C10: interpolating a text against variables V replaces every $name$
\* whose name is in V by V[name] and leaves every other $name$ as written.
C10_Interpolation ==
    i_pc = "applied" => i_out = Interpolated(i_text, i_variables, 1)

-----------------------------------------------------------------------------
(* C11 *)

\* the reply holds an xml fenced block
HasFencedBlock(text) ==
    \E i \in 1..Len(text) :
        /\ text[i] = "'''xml"
        /\ \E j \in (i + 1)..Len(text) : IsFence(text[j])

\* the first substring that runs from <response> to the next </response>
FirstResponseSubstring(text) ==
    LET starts == { i \in 1..Len(text) :
                      /\ text[i] = "<response>"
                      /\ \E j \in (i + 1)..Len(text) : text[j] = "</response>" }
    IN  IF starts = {} THEN None
        ELSE LET i == Least(starts)
                 j == Least({ k \in (i + 1)..Len(text) :
                                text[k] = "</response>" })
             IN  Some(SubSeq(text, i, j))

\* C11: without an xml fenced block, extraction returns the first substring
\* from <response> to the next </response>, whatever stands between the two
\* tags, and nothing is extracted only when the reply holds neither a fenced
\* block nor such a substring
C11_Extraction ==
    fn = "_first_xml_code_block" =>
        /\ ~HasFencedBlock(input) => output = FirstResponseSubstring(input)
        /\ ~TruthyOpt(output) =>
              ~HasFencedBlock(input) /\ ~FirstResponseSubstring(input).some

-----------------------------------------------------------------------------
(* C12 to C17, the parser *)

Parsed == fn = "ResponseParser.parse"

AllStepsOk(c) == \A i \in 1..Len(c.steps) : StepElemOk(c.steps[i])

\* the mapping {name -> value} the argument elements of a document write
ArgumentsWritten(action) == PairArgsFrom(action.arguments, Len(action.arguments))

\* the wire shape of the response format: a structured thought with
\* reasoning, to_do and done, and an action whose children are tool_name,
\* reason and arguments, the arguments as <arg> pairs
WireShape(doc) ==
    /\ doc.wf
    /\ doc.root = "response"
    /\ doc.thought.some
    /\ doc.thought.reasoning.some
    /\ doc.thought.to_do.some /\ AllStepsOk(doc.thought.to_do)
    /\ doc.thought.done.some /\ AllStepsOk(doc.thought.done)
    /\ ~doc.final_answer.some
    /\ ~doc.answer.some
    /\ doc.action.some
    /\ doc.action.has_tool_name
    /\ ~doc.action.has_step_name
    /\ doc.action.args_form = "pairs"

\* C12: a well-formed document of the wire shape is accepted by
\* ResponseParser.parse, and the Response's action carries the document's
\* tool_name and arguments
C12_WireShapeAccepted ==
    Parsed /\ WireShape(input.doc) =>
        /\ output.ok
        /\ output.response.action.some
        /\ output.response.action.tool_name = input.doc.action.tool_name
        /\ output.response.action.arguments = ArgumentsWritten(input.doc.action)

\* C13: ResponseParser.parse succeeds only for a document with exactly one
\* of action and final_answer/answer, and whose action, if any, has a
\* tool_name
C13_ExactlyOne ==
    Parsed /\ output.ok =>
        /\ input.doc.action.some
              # (input.doc.final_answer.some \/ input.doc.answer.some)
        /\ input.doc.action.some => input.doc.action.has_tool_name

ActionDocument(doc) ==
    /\ doc.root = "response"
    /\ doc.thought.some /\ ThoughtHasText(doc.thought)
    /\ ~doc.final_answer.some
    /\ doc.action.some
    /\ doc.action.has_step_name /\ doc.action.has_tool_name
    /\ AllStepsOk(doc.thought.to_do) /\ AllStepsOk(doc.thought.done)

C15_BothArgumentShapes ==
    Parsed /\ output.ok /\ output.response.action.some
           /\ input.doc.action.args_form = "pairs" =>
        /\ output.response.action.arguments = ArgumentsWritten(input.doc.action)
        /\ output.response.action.arguments =
              ResponseParser_parse(
                  [input.doc EXCEPT !.action.args_form = "named"]
              ).response.action.arguments

\* C16: a well-formed Response, serialized and parsed back, is the same
\* Response
C16_RoundTrip ==
    fn = "round_trip" =>
        /\ output.ok
        /\ output.response.thought = input.response.thought
        /\ output.response.action = input.response.action
        /\ output.response.final_answer = input.response.final_answer

\* the document with its malformation repaired
Corrected(doc) == [doc EXCEPT !.wf = TRUE]

\* C17: the strict parser's result is returned when it succeeds; a document
\* the strict parser rejects as malformed and the lenient one accepts
\* gives the fields the strict parser extracts from the corrected
\* document; an error is raised only when both parsers fail
C17_TwoStage ==
    Parsed =>
        /\ ResponseXmlParser_parse(input.doc).ok =>
              output = ResponseXmlParser_parse(input.doc)
        /\ ~input.doc.wf /\ ResponseBs4XmlParser_parse(input.doc).ok =>
              /\ output.ok
              /\ ResponseXmlParser_parse(Corrected(input.doc)).ok
              /\ output.response =
                    ResponseXmlParser_parse(Corrected(input.doc)).response
        /\ ~output.ok =>
              /\ ~ResponseXmlParser_parse(input.doc).ok
              /\ ~ResponseBs4XmlParser_parse(input.doc).ok

-----------------------------------------------------------------------------
(* C18 *)

\* C18 as claimed: execute receives each argument as a value of the type
\* the tool declares for it
C18_Coerced ==
    tool_call.ran =>
        \A i \in 1..Len(tool_call.named_args) :
            tool_call.named_args[i].value.type =
                (IF DeclaredType(tools[tool_call.tool],
                                 tool_call.named_args[i].name) = "int"
                 THEN "int" ELSE "str")

\* C18 as amended: execute receives every argument as the str that
\* interpolation returned, under the key with "-" and " " replaced by "_",
\* whatever type the tool declares
C18_ArgumentsPassedAsStrings ==
    tool_call.ran =>
        /\ Len(tool_call.named_args) = Len(tool_call.arguments)
        /\ \A i \in 1..Len(tool_call.named_args) :
              /\ tool_call.named_args[i].name =
                    ValidKey(tool_call.arguments[i].name)
              /\ tool_call.named_args[i].value =
                    Str(_replace_interpolated_variables(
                            tool_call.arguments[i].value,
                            tool_call.variables))

C18_Witness ==
    /\ tool_call.ran
    /\ \E i \in 1..Len(tool_call.named_args) :
          /\ DeclaredType(tools[tool_call.tool],
                          tool_call.named_args[i].name) = "int"
          /\ tool_call.named_args[i].value.type = "str"

-----------------------------------------------------------------------------
(* C19 *)

\* an existing plain-text file, as the fixture of the test writes it
PlainTextFile(call) ==
    /\ ~call.blank /\ ~call.url
    /\ call.exists /\ call.is_file /\ ~call.big
    /\ call.suffix = ".txt"
    /\ call.decodable

\* C19: on an existing .txt file MarkdownConverterTool.execute raises
\* ValidationError, and FileReaderTool.execute returns the content
C19_TextFileRefused ==
    PlainTextFile(input) =>
        /\ fn = "MarkdownConverterTool.execute" =>
              output.raised = "ValidationError"
        /\ fn = "FileReaderTool.execute" =>
              output.raised = "" /\ output.value = input.content

-----------------------------------------------------------------------------
(* C20 *)

\* the transitions the state machine is described with
ClaimedTransitions ==
    { <<"READY", "THINKING">>, <<"THINKING", "DECIDING">>,
      <<"DECIDING", "THINKING">>, <<"DECIDING", "COMPLETE">>,
      <<"DECIDING", "ERROR">> }

\* a reply is being parsed in this step and the parse fails
ParserFailsNow == pc = "thinking" /\ last_turn'.kind = "parse_error"

\* C20: while execute() runs, the state changes only along READY->THINKING,
\* THINKING->DECIDING, DECIDING->THINKING, DECIDING->COMPLETE and
\* DECIDING->ERROR; the parser runs in DECIDING and ERROR is never entered
\* from THINKING
C20_Transitions ==
    [][ /\ (pc \notin {"idle", "done"} /\ state' # state) =>
              <<state, state'>> \in ClaimedTransitions
        /\ ParserFailsNow => state = "DECIDING" ]_vars

\* C20 amended: _reset_state puts the state back to READY when execute()
\* starts; after that it changes only along the five transitions and
\* THINKING->ERROR; the reply is parsed while the state is THINKING, and a
\* parse failure takes THINKING to ERROR
C20_TransitionsWithThinkingError ==
    [][ /\ state' # state =>
              \/ <<state, state'>> \in
                    ClaimedTransitions \cup {<<"THINKING", "ERROR">>}
              \/ pc \in {"idle", "done"} /\ pc' = "loop" /\ state' = "READY"
        /\ ParserFailsNow => state = "THINKING" /\ state' = "ERROR" ]_vars

\* execute() has ended in ERROR on a reply that did not parse
C20_Witness ==
    /\ pc = "done"
    /\ state = "ERROR"
    /\ last_turn.kind = "parse_error"

-----------------------------------------------------------------------------
(* C21 *)

\* a step named n is in the list
HasStep(steps, n) == \E i \in 1..Len(steps) : steps[i].name = n

\* a turn whose action ran its tool has just ended and the loop goes on
ActionTurnEnded == pc = "loop" /\ last_turn.kind = "executed"

\* C21: after an action turn for the step S the action names, with string
\* result R, S is in done_steps and no longer in to_do_steps, and
\* variables[S] = R
C21_StepRecorded ==
    ActionTurnEnded =>
        /\ HasStep(done_steps, last_turn.step_name)
        /\ ~HasStep(to_do_steps, last_turn.step_name)
        /\ DictHas(step_results, last_turn.step_name)
        /\ DictGet(step_results, last_turn.step_name)
              = last_turn.observation.val

-----------------------------------------------------------------------------
(* C22 *)

-----------------------------------------------------------------------------
(* C23 *)

\* the names of the variables recorded
VariableNames(d) == { d[i].name : i \in 1..Len(d) }

\* C23: within one execute() call step_results only grows: no step of the
\* loop removes a variable name
C23_VariablesGrow ==
    [][ pc \notin {"idle", "done"} =>
           VariableNames(step_results) \subseteq VariableNames(step_results')
      ]_vars

\* two turns of one execute() have each recorded a variable
C23_Witness ==
    /\ pc = "loop"
    /\ current_iteration = 2
    /\ Cardinality(VariableNames(step_results)) = 2

-----------------------------------------------------------------------------
(* C24 *)

\* the ledger as _reset_state leaves it
FreshLedger ==
    /\ done_steps = <<>>
    /\ to_do_steps = <<>>
    /\ step_results = <<>>
    /\ memory = 0
    /\ final_answer = None

\* the prompt built from a fresh ledger
FreshPrompt ==
    <<"<query>", query, "</query>", "<step_result_variables>", "\n",
      "No step results available.",
      "\n", "</step_results_variables>", "<history>", "\n",
      "  <done>", "\n", "  </done>", "\n", "  <to_do>", "\n",
      "  </to_do>", "\n", "  <variables>", "\n", "  </variables>",
      "\n", "</history>">>

\* C24: an execute() started after an earlier one returned begins with an
\* empty ledger, no final answer, iteration 0 and state READY; its first
\* prompt is the prompt of a fresh agent, and a final answer it returns was
\* produced by its own last turn
C24_FreshStart ==
    /\ (last_turn.rerun /\ pc \in {"loop", "thinking", "deciding"}) =>
          FreshLedger
    /\ (last_turn.rerun /\ pc = "loop") =>
          current_iteration = 0 /\ state = "READY"
    /\ (last_turn.rerun /\ pc = "deciding") => prompt = FreshPrompt
    /\ (last_turn.rerun /\ pc = "done") => ret.kind = "no_answer"
    /\ (pc = "done" /\ ret.kind = "final_answer") =>
          last_turn.kind = "final" /\ ret.text = final_answer.val

\* the first prompt of a second execute() has been sent
C24_Witness ==
    /\ last_turn.rerun
    /\ pc = "deciding"
    /\ prompt = FreshPrompt

-----------------------------------------------------------------------------
(* C25 *)

\* this step is the end of a turn whose action ran its tool and returned
ActionExecutes == pc = "deciding" /\ last_turn'.kind = "executed"

\* C25: when an action executes for a step that is neither in to_do_steps
\* nor in the plan of the reply, the step is appended to done_steps once,
\* with a result, and the turn does not fail
C25_UnplannedStepRecorded ==
    [][ ( /\ ActionExecutes
          /\ ~HasStep(to_do_steps, response.action.step_name)
          /\ ~HasStep(response.thought.to_do, response.action.step_name) )
        => /\ pc' = "loop"
           /\ Len(done_steps') = Len(done_steps) + 1
           /\ done_steps'[Len(done_steps')].name = response.action.step_name
           /\ done_steps'[Len(done_steps')].result.some ]_vars

-----------------------------------------------------------------------------
(* C26 *)

\* C26: a turn whose tool is not found, or is declined by the user, leaves
\* done_steps and step_results unchanged
C26_OnlyExecutedRecorded ==
    [][ (pc = "deciding" /\ last_turn'.kind \in {"not_found", "not_approved"})
        => UNCHANGED <<done_steps, step_results>> ]_vars

-----------------------------------------------------------------------------
(* C27 *)

\* C27: whenever execute() has returned, the state is COMPLETE or ERROR
C27_TerminalState ==
    Returned => state \in {"COMPLETE", "ERROR"}

-----------------------------------------------------------------------------
(* C28 *)

\* the same variables, recorded in the opposite order
Reversed(d) == [i \in 1..Len(d) |-> d[Len(d) + 1 - i]]

\* C28: the result of interpolation does not depend on the order in which
\* the variables were recorded, and a value that was inserted is not
\* substituted again: a text that is one marker becomes that variable's
\* value, as written
C28_SimultaneousSubstitution ==
    i_pc = "applied" =>
        /\ i_out = _replace_interpolated_variables(i_text, Reversed(i_variables))
        /\ \A n \in StepNames :
              (i_text = Marker(n) /\ DictHas(i_variables, n)) =>
                  i_out = DictGet(i_variables, n)

-----------------------------------------------------------------------------
(* C29 *)

\* C29: every step in done_steps has a variable of its name in
\* step_results, and after a turn the variable of the step just recorded
\* holds that turn's action result, whatever the result
C29_DoneStepsHaveVariables ==
    /\ \A i \in 1..Len(done_steps) :
          DictHas(step_results, done_steps[i].name)
    /\ (pc = "loop" /\ last_turn.kind \in ActionKinds /\ last_turn.step # "") =>
          /\ DictHas(step_results, last_turn.step)
          /\ DictGet(step_results, last_turn.step) = last_turn.observation.val

-----------------------------------------------------------------------------
(* C30 *)

\* C30: when execute of either file tool has returned or raised on a URL,
\* no downloaded temporary file is left on disk
C30_NoTempFileLeft ==
    (fn \in {"MarkdownConverterTool.execute", "FileReaderTool.execute"}
     /\ input.url) => ~output.temp_file

====
